---- MODULE Spec2Model ----
(***************************************************************************)
(* Exchange-rate controller of the invoice form (InvoiceForm component).   *)
(*                                                                         *)
(* Dates are calendar-day numbers: day d falls on weekday d % 7 with       *)
(* 0 = Sunday ... 6 = Saturday (Date.getUTCDay); NoDate stands for the     *)
(* empty string ''.  Currency codes are the values of the currency select. *)
(*                                                                         *)
(* One step of the model is one browser event: a user handler or the       *)
(* continuation of an awaited promise of fetchRate.  The state updates of  *)
(* an event are batched, the component re-renders and the effects whose    *)
(* dependencies changed run (cleanups first, then bodies, in declaration   *)
(* order), repeatedly until no dependency changes.  controller.abort()     *)
(* rejects the pending promise of the aborted lookup at once, so its       *)
(* continuation runs as a microtask of the same event.                     *)
(*                                                                         *)
(* cur is the lookup owned by the last run of the rate-fetch effect (the   *)
(* one its cleanup closes over); stale holds lookups that a cleanup has    *)
(* replaced and that still await an answer; sent and dropped are the       *)
(* requests issued, and the awaits rejected by abort, in the last event.   *)
(*                                                                         *)
(* override is a history variable: the date the user last picked in the    *)
(* rate-date input when it differed from the default of that moment, and   *)
(* NoDate once the user asks for the default again or leaves the currency. *)
(*                                                                         *)
(* savedSellers and savedBuyers are the address books of the component,    *)
(* localStorage the two keys it writes them to; toast holds the            *)
(* notifications shown by the last event.                                  *)
(***************************************************************************)
EXTENDS Integers, Sequences, FiniteSets, TLC

VARIABLES invoiceData, rateStatus, rateFetchTrigger, cur, stale, sent, dropped,
          override, savedSellers, savedBuyers, localStorage, toast

vars == <<invoiceData, rateStatus, rateFetchTrigger, cur, stale, sent, dropped,
          override, savedSellers, savedBuyers, localStorage, toast>>

---------------------------------------------------------------------------
(* Bounds of the model *)

MaxTrigger == 2

ForeignCurrencies == {"EUR", "USD"}

MaxId == 3

(* issue dates of the date specification: whole weeks of days up to MaxDate *)
MaxDate == 50

DateInputs == 8..MaxDate

QuantityInputs == {1, 2}

NetPriceInputs == {0, 15000}

VatRateInputs == {23, 8, -1}

IssueDateInputs == {0, 29, 31}

RateDateInputs == {0, 26, 27, 33}

Today == 30

---------------------------------------------------------------------------
(* Constants of the program *)

MAX_RATE_LOOKBACK_DAYS == 10

NoDate == 0

Null == -1

NullError == "null"

MsgHttp == "Nie udalo sie pobrac kursu NBP."

MsgNoData == "Brak danych kursu NBP dla wybranej daty."

MsgExhausted == "Brak kursu NBP dla wybranej daty w ostatnich dniach roboczych."

MsgFallback == "Blad podczas pobierania kursu NBP."

MsgNetwork == "Failed to fetch"

NoLookup == [phase |-> "none"]

Currencies == {"PLN"} \cup ForeignCurrencies

---------------------------------------------------------------------------
(* Date helpers *)

parseISODate(dateString) == IF dateString = NoDate THEN Null ELSE dateString

toDateString(date) == date

(* variant: only Sundays are stepped over *)
RECURSIVE skipWeekend_sundayOnly(_)
skipWeekend_sundayOnly(date) ==
  IF date % 7 = 0 THEN skipWeekend_sundayOnly(date - 1) ELSE date

RECURSIVE skipWeekend(_)
skipWeekend(date) ==
  IF date % 7 = 0 \/ date % 7 = 6 THEN skipWeekend(date - 1) ELSE date

getPreviousBusinessDay(referenceDate) ==
  LET base == parseISODate(referenceDate)
      source == IF base = Null THEN Today ELSE base
  IN toDateString(skipWeekend(source - 1))

shiftDateString(dateString, offset) == toDateString(dateString + offset)

(* a date string as its digits, zero-padded to a fixed width as in          *)
(* YYYY-MM-DD, and the > of two such strings: the first differing digit     *)
isoDigits(dateString) == <<dateString \div 10, dateString % 10>>

stringGreater(a, b) ==
  LET x == isoDigits(a)
      y == isoDigits(b)
  IN x[1] > y[1] \/ (x[1] = y[1] /\ x[2] > y[2])

---------------------------------------------------------------------------
(* The rate source: the mid rate it publishes for a currency and a day *)

CurrencyCode(c) == CASE c = "EUR" -> 4 [] c = "USD" -> 3 [] OTHER -> 1

Mid(c, date) == CurrencyCode(c) * 100 + date

(* an item as addItem and the first invoice create it; amounts are whole     *)
(* numbers of 1/10000 of the currency unit, quantities are whole numbers    *)
NewItem(id) == [id |-> id, quantity |-> 1, netPrice |-> 0, vatRate |-> 23]

FirstItemId == "1"

(* a company record: its name and the rest of its fields as one value; a   *)
(* field that the object does not have reads as Undefined                  *)
Undefined == "undefined"

EmptyCompany == [name |-> "", address |-> ""]

toastError(message) == [kind |-> "error", message |-> message]

toastSuccess(message) == [kind |-> "success", message |-> message]

(* the keys savedSellers and savedBuyers as the lists they parse to; a key *)
(* that was never written loads as no records                              *)
emptyStorage == [savedSellers |-> <<>>, savedBuyers |-> <<>>]

EmptyRate == [targetDate |-> NoDate, effectiveDate |-> NoDate, value |-> Null]

(* the exchangeRate of the invoice the form is first rendered with *)
initialExchangeRate == EmptyRate

---------------------------------------------------------------------------
(* The component state as one value *)

State == [inv |-> invoiceData, st |-> rateStatus, trig |-> rateFetchTrigger,
          cur |-> cur, stale |-> stale, sent |-> {}, dropped |-> {},
          savedSellers |-> savedSellers, savedBuyers |-> savedBuyers,
          localStorage |-> localStorage, toast |-> <<>>]

normalizedCurrency(S) == S.inv.currency

isForeignCurrency(S) ==
  normalizedCurrency(S) # "" /\ normalizedCurrency(S) # "PLN"

maxRateDate(S) == getPreviousBusinessDay(S.inv.issueDate)

WithRate(S, r) == [S EXCEPT !.inv.exchangeRate = r]

---------------------------------------------------------------------------
(* Handlers: the state updates they enqueue *)

(* variant: the default target date is taken from today, not the issue date *)
handleCurrencyChange_defaultFromToday(S, value) ==
  LET defaultTargetDate == getPreviousBusinessDay(NoDate)
      prevTarget == S.inv.exchangeRate.targetDate
      S1 == IF value = "PLN"
            THEN [S EXCEPT !.inv.currency = value, !.inv.exchangeRate = EmptyRate]
            ELSE [S EXCEPT !.inv.currency = value,
                           !.inv.exchangeRate =
                              [targetDate |-> IF prevTarget # NoDate THEN prevTarget
                                              ELSE defaultTargetDate,
                               effectiveDate |-> NoDate,
                               value |-> Null]]
  IN [S1 EXCEPT !.st = [loading |-> FALSE, error |-> NullError]]

handleCurrencyChange(S, value) ==
  LET defaultTargetDate == getPreviousBusinessDay(S.inv.issueDate)
      prevTarget == S.inv.exchangeRate.targetDate
      S1 == IF value = "PLN"
            THEN [S EXCEPT !.inv.currency = value, !.inv.exchangeRate = EmptyRate]
            ELSE [S EXCEPT !.inv.currency = value,
                           !.inv.exchangeRate =
                              [targetDate |-> IF prevTarget # NoDate THEN prevTarget
                                              ELSE defaultTargetDate,
                               effectiveDate |-> NoDate,
                               value |-> Null]]
  IN [S1 EXCEPT !.st = [loading |-> FALSE, error |-> NullError]]

(* variant: the date is stored as typed, without the clamp *)
handleRateDateChange_noClamp(S, value) ==
  [S EXCEPT !.inv.exchangeRate =
                [targetDate |-> value, effectiveDate |-> NoDate, value |-> Null],
            !.st.error = NullError]

handleRateDateChange(S, value) ==
  LET sanitized == IF value # NoDate
                   THEN (IF stringGreater(value, maxRateDate(S))
                         THEN maxRateDate(S) ELSE value)
                   ELSE NoDate
  IN [S EXCEPT !.inv.exchangeRate =
                   [targetDate |-> sanitized, effectiveDate |-> NoDate, value |-> Null],
               !.st.error = NullError]

(* variant: the previous business day of today, not of the issue date *)
handleUsePreviousBusinessDay_fromToday(S) ==
  LET previousDay == getPreviousBusinessDay(NoDate)
  IN [S EXCEPT !.inv.exchangeRate =
                   [targetDate |-> previousDay, effectiveDate |-> NoDate, value |-> Null],
               !.st.error = NullError,
               !.trig = @ + 1]

handleUsePreviousBusinessDay(S) ==
  LET previousDay == getPreviousBusinessDay(S.inv.issueDate)
  IN [S EXCEPT !.inv.exchangeRate =
                   [targetDate |-> previousDay, effectiveDate |-> NoDate, value |-> Null],
               !.st.error = NullError,
               !.trig = @ + 1]

(* variant: refresh with a target date set does not bump the trigger *)
handleRefreshRate_noBump(S) ==
  IF S.inv.exchangeRate.targetDate = NoDate
  THEN LET previousDay == getPreviousBusinessDay(S.inv.issueDate)
       IN [S EXCEPT !.st.error = NullError,
                    !.inv.exchangeRate =
                        [targetDate |-> previousDay, effectiveDate |-> NoDate,
                         value |-> Null],
                    !.trig = @ + 1]
  ELSE [S EXCEPT !.st.error = NullError]

(* variant: the refresh clears the stored rate before the lookup answers *)
handleRefreshRate_clearsRate(S) ==
  [S EXCEPT !.st.error = NullError,
            !.inv.exchangeRate =
                [targetDate |-> IF @.targetDate = NoDate
                                THEN getPreviousBusinessDay(S.inv.issueDate)
                                ELSE @.targetDate,
                 effectiveDate |-> NoDate, value |-> Null],
            !.trig = @ + 1]

handleRefreshRate(S) ==
  IF S.inv.exchangeRate.targetDate = NoDate
  THEN LET previousDay == getPreviousBusinessDay(S.inv.issueDate)
       IN [S EXCEPT !.st.error = NullError,
                    !.inv.exchangeRate =
                        [targetDate |-> previousDay, effectiveDate |-> NoDate,
                         value |-> Null],
                    !.trig = @ + 1]
  ELSE [S EXCEPT !.st.error = NullError, !.trig = @ + 1]

(* variant: a default target date is rewritten even when it stays the same *)
handleIssueDateChange_alwaysReplace(S, value, eager) ==
  LET prevCurrency == S.inv.currency
      newDefault == getPreviousBusinessDay(value)
      previousDefault == getPreviousBusinessDay(S.inv.issueDate)
      prevTarget == S.inv.exchangeRate.targetDate
      targetWasDefault == prevTarget = NoDate \/ prevTarget = previousDefault
      replaceTarget == /\ prevCurrency # "" /\ prevCurrency # "PLN"
                       /\ targetWasDefault
      shouldRefetch == eager /\ replaceTarget
      S1 == [S EXCEPT !.inv.issueDate = value]
      S2 == IF replaceTarget
            THEN [S1 EXCEPT !.inv.exchangeRate =
                                [targetDate |-> newDefault, effectiveDate |-> NoDate,
                                 value |-> Null]]
            ELSE S1
  IN IF shouldRefetch
     THEN [S2 EXCEPT !.st.error = NullError, !.trig = @ + 1]
     ELSE S2

(* shouldRefetch is assigned inside the state updater: it is seen by the    *)
(* handler only when the updater is run eagerly, at the setInvoiceData call *)
handleIssueDateChange(S, value, eager) ==
  LET prevCurrency == S.inv.currency
      newDefault == getPreviousBusinessDay(value)
      previousDefault == getPreviousBusinessDay(S.inv.issueDate)
      prevTarget == S.inv.exchangeRate.targetDate
      targetWasDefault == prevTarget = NoDate \/ prevTarget = previousDefault
      replaceTarget == /\ prevCurrency # "" /\ prevCurrency # "PLN"
                       /\ targetWasDefault
                       /\ prevTarget # newDefault
      shouldRefetch == eager /\ replaceTarget
      S1 == [S EXCEPT !.inv.issueDate = value]
      S2 == IF replaceTarget
            THEN [S1 EXCEPT !.inv.exchangeRate =
                                [targetDate |-> newDefault, effectiveDate |-> NoDate,
                                 value |-> Null]]
            ELSE S1
  IN IF shouldRefetch
     THEN [S2 EXCEPT !.st.error = NullError, !.trig = @ + 1]
     ELSE S2

---------------------------------------------------------------------------
(* Effects *)

(* variant: the cleanup neither cancels nor aborts the lookup it replaces *)
rateEffectCleanup_noCancel(S) ==
  IF S.cur.phase \in {"none", "done"} THEN [S EXCEPT !.cur = NoLookup]
  ELSE [S EXCEPT !.cur = NoLookup, !.stale = @ \cup {S.cur}]

(* cleanup of the rate-fetch effect: isCancelled = true; controller.abort() *)
rateEffectCleanup(S) ==
  IF S.cur.phase \in {"none", "done"} THEN [S EXCEPT !.cur = NoLookup]
  ELSE [S EXCEPT !.cur = NoLookup,
                 !.stale = @ \cup {[S.cur EXCEPT !.isCancelled = TRUE,
                                                 !.aborted = TRUE]}]

(* variant: the effect defaults the date without looking at the currency *)
clearOrDefaultEffect_noPlnGuard(S, R) ==
  IF R.inv.exchangeRate.targetDate = NoDate
  THEN [S EXCEPT !.inv.exchangeRate.targetDate =
                    getPreviousBusinessDay(R.inv.issueDate)]
  ELSE S

(* the effect that clears the rate of a PLN invoice and defaults the date *)
(* variant: an empty target date of a foreign invoice is left empty *)
clearOrDefaultEffect_noDefault(S, R) ==
  IF ~isForeignCurrency(R)
  THEN LET S1 == IF R.inv.exchangeRate # EmptyRate THEN WithRate(S, EmptyRate) ELSE S
       IN [S1 EXCEPT !.st = [loading |-> FALSE, error |-> NullError]]
  ELSE S

clearOrDefaultEffect(S, R) ==
  IF ~isForeignCurrency(R)
  THEN LET S1 == IF R.inv.exchangeRate # EmptyRate THEN WithRate(S, EmptyRate) ELSE S
       IN [S1 EXCEPT !.st = [loading |-> FALSE, error |-> NullError]]
  ELSE IF R.inv.exchangeRate.targetDate = NoDate
       THEN [S EXCEPT !.inv.exchangeRate.targetDate =
                         getPreviousBusinessDay(R.inv.issueDate)]
       ELSE S

(* the request fetch() sends for lookup l, tagged with the lookup it is from *)
request(l) ==
  [currency |-> l.currency, date |-> l.lookupDate, targetDate |-> l.targetDate,
   attempt |-> l.attempts, isCancelled |-> l.isCancelled]

(* fetchRate up to its first await: the status update and the first request *)
fetchRate(S, R) ==
  LET targetDate == R.inv.exchangeRate.targetDate
      l == [currency |-> normalizedCurrency(R),
            targetDate |-> targetDate,
            lookupDate |-> targetDate,
            attempts |-> 0,
            phase |-> "fetch",
            isCancelled |-> FALSE,
            aborted |-> FALSE,
            reqs |-> <<targetDate>>,
            resps |-> <<>>]
  IN [S EXCEPT !.st = [loading |-> TRUE, error |-> NullError],
               !.cur = l,
               !.sent = @ \cup {request(l)}]

rateFetchEffect(S, R) ==
  IF ~isForeignCurrency(R) THEN S
  ELSE IF R.inv.exchangeRate.targetDate = NoDate THEN S
  ELSE fetchRate(S, R)

clearDeps(S) == <<isForeignCurrency(S), S.inv.exchangeRate.targetDate, S.inv.issueDate>>

(* variant: the dependency list of the rate-fetch effect lacks the date *)
fetchDeps_noTargetDate(S) == <<isForeignCurrency(S), S.trig>>

(* variant: the dependency list of the rate-fetch effect lacks the trigger *)
fetchDeps_noTrigger(S) == <<isForeignCurrency(S), S.inv.exchangeRate.targetDate>>

(* variant: the rate-fetch effect depends on the whole invoice *)
fetchDeps_wholeInvoice(S) == <<S.inv, S.trig>>

fetchDeps(S) == <<isForeignCurrency(S), S.inv.exchangeRate.targetDate, S.trig>>

(* one commit: R is the state rendered, Q the state of the previous render *)
commitEffects(Q, R) ==
  LET S1 == IF fetchDeps(Q) # fetchDeps(R) THEN rateEffectCleanup(R) ELSE R
      S2 == IF clearDeps(Q) # clearDeps(R) THEN clearOrDefaultEffect(S1, R) ELSE S1
      S3 == IF fetchDeps(Q) # fetchDeps(R) THEN rateFetchEffect(S2, R) ELSE S2
  IN S3

RECURSIVE settle(_, _)
settle(Q, R) ==
  IF fetchDeps(Q) = fetchDeps(R) /\ clearDeps(Q) = clearDeps(R) THEN R
  ELSE settle(R, commitEffects(Q, R))

---------------------------------------------------------------------------
(* Continuations of fetchRate: each yields the new state and the lookup *)

(* a lookup that has returned: its locals are gone, its outcome is kept *)
finished(l, outcome, rate) ==
  [phase |-> "done", outcome |-> outcome, rate |-> rate,
   requests |-> Len(l.reqs),
   last |-> IF l.resps = <<>> THEN "none" ELSE l.resps[Len(l.resps)]]

NoRate == [effectiveDate |-> NoDate, mid |-> Null]

(* variant: the catch leaves the rate as it is *)
fetchRateCatch_keepsRate(S, l, name, message) ==
  IF l.isCancelled \/ l.aborted THEN <<S, finished(l, "dropped", NoRate)>>
  ELSE IF name = "AbortError" THEN <<S, finished(l, "dropped", NoRate)>>
  ELSE <<[S EXCEPT !.st = [loading |-> FALSE,
                           error |-> IF message # "" THEN message ELSE MsgFallback],
                   !.toast = Append(@, toastError(IF message # "" THEN message ELSE MsgHttp))],
         finished(l, "failed", NoRate)>>

(* variant: the catch leaves the loading flag as it is *)
fetchRateCatch_keepsLoading(S, l, name, message) ==
  IF l.isCancelled \/ l.aborted THEN <<S, finished(l, "dropped", NoRate)>>
  ELSE IF name = "AbortError" THEN <<S, finished(l, "dropped", NoRate)>>
  ELSE <<[S EXCEPT !.st.error = IF message # "" THEN message ELSE MsgFallback,
                   !.inv.exchangeRate =
                       [targetDate |-> l.targetDate, effectiveDate |-> NoDate,
                        value |-> Null],
                   !.toast = Append(@, toastError(IF message # "" THEN message ELSE MsgHttp))],
         finished(l, "failed", NoRate)>>

(* catch (error) of fetchRate *)
fetchRateCatch(S, l, name, message) ==
  IF l.isCancelled \/ l.aborted THEN <<S, finished(l, "dropped", NoRate)>>
  ELSE IF name = "AbortError" THEN <<S, finished(l, "dropped", NoRate)>>
  ELSE <<[S EXCEPT !.st = [loading |-> FALSE,
                           error |-> IF message # "" THEN message ELSE MsgFallback],
                   !.inv.exchangeRate =
                       [targetDate |-> l.targetDate, effectiveDate |-> NoDate,
                        value |-> Null],
                   !.toast = Append(@, toastError(IF message # "" THEN message ELSE MsgHttp))],
         finished(l, "failed", NoRate)>>

(* variant: exhaustion leaves the loading flag as it is *)
fetchRateExhausted_keepsLoading(S, l) ==
  IF ~l.isCancelled
  THEN <<[S EXCEPT !.st.error = MsgExhausted,
                   !.inv.exchangeRate =
                       [targetDate |-> l.targetDate, effectiveDate |-> NoDate,
                        value |-> Null],
                   !.toast = Append(@, toastError(MsgExhausted))],
         finished(l, "exhausted", NoRate)>>
  ELSE <<S, finished(l, "dropped", NoRate)>>

(* after the while loop of fetchRate *)
fetchRateExhausted(S, l) ==
  IF ~l.isCancelled
  THEN <<[S EXCEPT !.st = [loading |-> FALSE, error |-> MsgExhausted],
                   !.inv.exchangeRate =
                       [targetDate |-> l.targetDate, effectiveDate |-> NoDate,
                        value |-> Null],
                   !.toast = Append(@, toastError(MsgExhausted))],
         finished(l, "exhausted", NoRate)>>
  ELSE <<S, finished(l, "dropped", NoRate)>>

(* variant: the loop bound is off by one *)
fetchRateLoop_offByOne(S, l) ==
  IF ~l.isCancelled /\ l.attempts <= MAX_RATE_LOOKBACK_DAYS
  THEN <<[S EXCEPT !.sent = @ \cup {request(l)}],
         [l EXCEPT !.phase = "fetch", !.reqs = Append(@, l.lookupDate)]>>
  ELSE fetchRateExhausted(S, l)

(* the loop head: issue the next request or leave the loop *)
fetchRateLoop(S, l) ==
  IF ~l.isCancelled /\ l.attempts < MAX_RATE_LOOKBACK_DAYS
  THEN <<[S EXCEPT !.sent = @ \cup {request(l)}],
         [l EXCEPT !.phase = "fetch", !.reqs = Append(@, l.lookupDate)]>>
  ELSE fetchRateExhausted(S, l)

(* variant: the walk-back shifts from the target date, not the last date *)
onFetchSettled_shiftFromTarget(S, l, r) ==
  LET l1 == [l EXCEPT !.resps = Append(@, r)]
  IN CASE r = "abort"   -> fetchRateCatch(S, l1, "AbortError", "The user aborted a request.")
       [] r = "network" -> fetchRateCatch(S, l1, "TypeError", MsgNetwork)
       [] r = "404"     -> fetchRateLoop(S, [l1 EXCEPT
                               !.lookupDate = shiftDateString(l.targetDate, -1),
                               !.attempts = @ + 1])
       [] r = "error"   -> fetchRateCatch(S, l1, "Error", MsgHttp)
       [] OTHER         -> <<S, [l1 EXCEPT !.phase = "json"]>>

(* variant: a server error is walked back like a missing rate *)
onFetchSettled_retryOnError(S, l, r) ==
  LET l1 == [l EXCEPT !.resps = Append(@, r)]
  IN CASE r = "abort"   -> fetchRateCatch(S, l1, "AbortError", "The user aborted a request.")
       [] r = "network" -> fetchRateCatch(S, l1, "TypeError", MsgNetwork)
       [] r \in {"404", "error"} -> fetchRateLoop(S, [l1 EXCEPT
                               !.lookupDate = shiftDateString(l.lookupDate, -1),
                               !.attempts = @ + 1])
       [] OTHER         -> <<S, [l1 EXCEPT !.phase = "json"]>>

(* await fetch(...) settles with answer r *)
onFetchSettled(S, l, r) ==
  LET l1 == [l EXCEPT !.resps = Append(@, r)]
  IN CASE r = "abort"   -> fetchRateCatch(S, l1, "AbortError", "The user aborted a request.")
       [] r = "network" -> fetchRateCatch(S, l1, "TypeError", MsgNetwork)
       [] r = "404"     -> fetchRateLoop(S, [l1 EXCEPT
                               !.lookupDate = shiftDateString(l.lookupDate, -1),
                               !.attempts = @ + 1])
       [] r = "error"   -> fetchRateCatch(S, l1, "Error", MsgHttp)
       [] OTHER         -> <<S, [l1 EXCEPT !.phase = "json"]>>

(* variant: a body without a numeric mid is treated like a 404 *)
onJsonSettled_retryOnNoMid(S, l0, b) ==
  LET l == [l0 EXCEPT !.resps = Append(@, b.kind)]
  IN
  IF b.kind = "abort"
  THEN fetchRateCatch(S, l, "AbortError", "The user aborted a request.")
  ELSE IF b.kind = "nomid"
  THEN fetchRateLoop(S, [l EXCEPT !.lookupDate = shiftDateString(l.lookupDate, -1),
                                  !.attempts = @ + 1])
  ELSE IF l.isCancelled THEN <<S, finished(l, "dropped", NoRate)>>
  ELSE <<[S EXCEPT !.inv.exchangeRate =
                       [targetDate |-> l.targetDate, effectiveDate |-> b.effectiveDate,
                        value |-> b.mid],
                   !.st = [loading |-> FALSE, error |-> NullError]],
         finished(l, "resolved", [effectiveDate |-> b.effectiveDate, mid |-> b.mid])>>

(* variant: the date asked for is stored as the effective date *)
onJsonSettled_requestedDate(S, l0, b) ==
  LET l == [l0 EXCEPT !.resps = Append(@, b.kind)]
  IN
  IF b.kind = "abort"
  THEN fetchRateCatch(S, l, "AbortError", "The user aborted a request.")
  ELSE IF b.kind = "nomid"
  THEN fetchRateCatch(S, l, "Error", MsgNoData)
  ELSE IF l.isCancelled THEN <<S, finished(l, "dropped", NoRate)>>
  ELSE <<[S EXCEPT !.inv.exchangeRate =
                       [targetDate |-> l.targetDate, effectiveDate |-> l.lookupDate,
                        value |-> b.mid],
                   !.st = [loading |-> FALSE, error |-> NullError]],
         finished(l, "resolved", [effectiveDate |-> l.lookupDate, mid |-> b.mid])>>

(* await response.json() settles with body b *)
onJsonSettled(S, l0, b) ==
  LET l == [l0 EXCEPT !.resps = Append(@, b.kind)]
  IN
  IF b.kind = "abort"
  THEN fetchRateCatch(S, l, "AbortError", "The user aborted a request.")
  ELSE IF b.kind = "nomid"
  THEN fetchRateCatch(S, l, "Error", MsgNoData)
  ELSE IF l.isCancelled THEN <<S, finished(l, "dropped", NoRate)>>
  ELSE <<[S EXCEPT !.inv.exchangeRate =
                       [targetDate |-> l.targetDate, effectiveDate |-> b.effectiveDate,
                        value |-> b.mid],
                   !.st = [loading |-> FALSE, error |-> NullError]],
         finished(l, "resolved", [effectiveDate |-> b.effectiveDate, mid |-> b.mid])>>

(* put the lookup back where it lives: the effect's closure or the stale set *)
storeLookup(S, old, new) ==
  IF S.cur = old
  THEN [S EXCEPT !.cur = new]
  ELSE [S EXCEPT !.stale = IF new.phase = "done" THEN @ \ {old}
                           ELSE (@ \ {old}) \cup {new}]

(* an event: the batched updates R over the rendered state Q, the effects, *)
(* and the continuations of the lookups the effects aborted                *)
RECURSIVE event(_, _)
event(Q, R) ==
  LET S == settle(Q, R)
      A == {l \in S.stale : l.aborted}
  IN IF A = {} THEN S
     ELSE LET l == CHOOSE x \in A : TRUE
              res == IF l.phase = "fetch" THEN onFetchSettled(S, l, "abort")
                     ELSE onJsonSettled(S, l, [kind |-> "abort"])
              S1 == storeLookup(res[1], l, res[2])
          IN event(S, [S1 EXCEPT !.dropped = @ \cup {l}])

---------------------------------------------------------------------------
(* The rate source *)

FetchAnswers == {"404", "ok", "error", "network"}

(* a body without a numeric mid, or a rate: for the day asked, for the      *)
(* business day the source rounds a weekend to, or without effectiveDate   *)
JsonAnswers(l) ==
  {[kind |-> "nomid"]} \cup
  {[kind |-> "rate", effectiveDate |-> e, mid |-> Mid(l.currency, l.lookupDate)] :
      e \in {l.lookupDate, skipWeekend(l.lookupDate), NoDate}}

Pending == (IF cur.phase \in {"fetch", "json"} THEN {cur} ELSE {}) \cup stale

---------------------------------------------------------------------------
(* Specification *)

Commit(S) ==
  /\ S.trig <= MaxTrigger
  /\ invoiceData' = S.inv
  /\ rateStatus' = S.st
  /\ rateFetchTrigger' = S.trig
  /\ cur' = S.cur
  /\ stale' = S.stale
  /\ sent' = S.sent
  /\ dropped' = S.dropped
  /\ savedSellers' = S.savedSellers
  /\ savedBuyers' = S.savedBuyers
  /\ localStorage' = S.localStorage
  /\ toast' = S.toast

Init ==
  /\ invoiceData = [currency |-> "PLN", issueDate |-> Today,
                    exchangeRate |-> initialExchangeRate,
                    items |-> <<NewItem(FirstItemId)>>,
                    seller |-> EmptyCompany, buyer |-> EmptyCompany,
                    notes |-> <<>>]
  /\ rateStatus = [loading |-> FALSE, error |-> NullError]
  /\ rateFetchTrigger = 0
  /\ cur = NoLookup
  /\ stale = {}
  /\ sent = {}
  /\ savedSellers = <<>>
  /\ savedBuyers = <<>>
  /\ localStorage = emptyStorage
  /\ toast = <<>>
  /\ dropped = {}
  /\ override = NoDate

CurrencyChange ==
  \E value \in Currencies :
    /\ value # invoiceData.currency
    /\ Commit(event(State, handleCurrencyChange(State, value)))
    /\ override' = IF value = "PLN" THEN NoDate ELSE override

(* the date input shows targetDate; onChange fires for a different value *)
RateDateChangeOf(value) ==
  /\ isForeignCurrency(State)
  /\ value # invoiceData.exchangeRate.targetDate
  /\ Commit(event(State, handleRateDateChange(State, value)))
  /\ override' =
        LET sanitized == handleRateDateChange(State, value).inv.exchangeRate.targetDate
        IN IF sanitized # maxRateDate(State) THEN sanitized ELSE NoDate

RateDateChange == \E value \in RateDateInputs : RateDateChangeOf(value)

UsePreviousBusinessDay ==
  /\ isForeignCurrency(State)
  /\ ~rateStatus.loading
  /\ Commit(event(State, handleUsePreviousBusinessDay(State)))
  /\ override' = NoDate

RefreshRate ==
  /\ isForeignCurrency(State)
  /\ ~rateStatus.loading
  /\ Commit(event(State, handleRefreshRate(State)))
  /\ UNCHANGED override

IssueDateChange ==
  \E value \in IssueDateInputs : \E eager \in BOOLEAN :
    /\ Commit(event(State, handleIssueDateChange(State, value, eager)))
    /\ UNCHANGED override

FetchSettled ==
  \E l \in Pending : \E r \in FetchAnswers :
    /\ l.phase = "fetch"
    /\ LET res == onFetchSettled(State, l, r)
       IN Commit(event(State, storeLookup(res[1], l, res[2])))
    /\ UNCHANGED override

JsonSettledWith(l, b) ==
  /\ l.phase = "json"
  /\ LET res == onJsonSettled(State, l, b)
     IN Commit(event(State, storeLookup(res[1], l, res[2])))
  /\ UNCHANGED override

JsonSettled ==
  \E l \in {x \in Pending : x.phase = "json"} : \E b \in JsonAnswers(l) :
    JsonSettledWith(l, b)

Next ==
  \/ CurrencyChange
  \/ RateDateChange
  \/ UsePreviousBusinessDay
  \/ RefreshRate
  \/ IssueDateChange
  \/ FetchSettled
  \/ JsonSettled

Spec == Init /\ [][Next]_vars

---------------------------------------------------------------------------
(* Invoice items *)

Max(S) == CHOOSE x \in S : \A y \in S : y <= x

(* parseInt(i.id) || 0: the number an id string spells, 0 when none *)
parseIntId(id) ==
  IF \E n \in 1..(MaxId + 1) : ToString(n) = id
  THEN CHOOSE n \in 1..(MaxId + 1) : ToString(n) = id
  ELSE 0

(* variant: the new id is the length of the list plus one *)
addItem_lengthPlusOne(S) ==
  LET newId == ToString(Len(S.inv.items) + 1)
  IN [S EXCEPT !.inv.items = Append(@, NewItem(newId))]

addItem(S) ==
  LET ids == {parseIntId(S.inv.items[i].id) : i \in 1..Len(S.inv.items)}
      newId == ToString(Max(ids \cup {0}) + 1)
  IN [S EXCEPT !.inv.items = Append(@, NewItem(newId))]

(* variant: the item is removed whatever the length of the list *)
removeItem_noGuard(S, id) ==
  [S EXCEPT !.inv.items = SelectSeq(@, LAMBDA item : item.id # id)]

removeItem(S, id) ==
  IF Len(S.inv.items) > 1
  THEN [S EXCEPT !.inv.items = SelectSeq(@, LAMBDA item : item.id # id)]
  ELSE S

MapSeq(seq, Op(_)) == [i \in 1..Len(seq) |-> Op(seq[i])]

updateItem(S, id, field, value) ==
  [S EXCEPT !.inv.items =
      MapSeq(@, LAMBDA item : IF item.id = id THEN [item EXCEPT ![field] = value]
                                              ELSE item)]

---------------------------------------------------------------------------
(* Notes: the text is a sequence of pieces, each a preset, a text typed by *)
(* the user, a blank or a line break                                       *)

NOTE_PRESETS ==
  <<"Zwolnienie z VAT na podstawie art. 113 ust. 1 ustawy o VAT.",
    "Usluga nie podlega opodatkowaniu VAT w Polsce (art. 28b ustawy o VAT).">>

LineBreak == "\n"

Blanks == {" ", LineBreak}

(* current.includes(note) *)
includes(current, note) == \E i \in 1..Len(current) : current[i] = note

(* current.trim().length > 0 *)
trimmedNonEmpty(current) == \E i \in 1..Len(current) : current[i] \notin Blanks

appendNote(S, note) ==
  LET current == S.inv.notes
  IN IF includes(current, note) THEN S
     ELSE LET separator == IF trimmedNonEmpty(current) THEN <<LineBreak>> ELSE <<>>
          IN [S EXCEPT !.inv.notes = current \o separator \o <<note>>]

(* onChange of the notes textarea *)
setNotes(S, value) == [S EXCEPT !.inv.notes = value]

---------------------------------------------------------------------------
(* The preview: amounts computed from the invoice *)

VatRates == {23, 8, 5, 0, -1, -2, -3}

isPercentageRate(r) == r >= 0

(* variant: a sentinel code is charged like a percentage *)
calculateVatAmount_noSentinel(r, netAmount) == (netAmount * r) \div 100

calculateVatAmount(r, netAmount) ==
  IF isPercentageRate(r) THEN (netAmount * r) \div 100 ELSE 0

(* the property key of a rate code and the number parseFloat reads from it *)
(* variant: a code without a label of its own is shown as NP *)
getVatLabel_defaultNP(r) ==
  IF isPercentageRate(r) THEN ToString(r) \o "%"
  ELSE CASE r = -1 -> "ZW"
         [] r = -2 -> "NP"
         [] r = -3 -> "OO"
         [] OTHER -> "NP"

getVatLabel(r) ==
  IF isPercentageRate(r) THEN ToString(r) \o "%"
  ELSE CASE r = -1 -> "ZW"
         [] r = -2 -> "NP"
         [] r = -3 -> "OO"
         [] OTHER -> "ZW"

(* the property key of a rate (its decimal string) and parseFloat of a key *)
keyOfRate == [r \in VatRates |-> ToString(r)]

rateKey(r) == IF r \in VatRates THEN keyOfRate[r] ELSE ToString(r)

parseFloatKey(key) == CHOOSE r \in VatRates : keyOfRate[r] = key

(* the amounts of one item, as the forEach body and the item rows compute *)
itemAmounts(item) ==
  LET netAmount == item.quantity * item.netPrice
      vatAmount == calculateVatAmount(item.vatRate, netAmount)
      grossAmount == netAmount + vatAmount
  IN [net |-> netAmount, vat |-> vatAmount, gross |-> grossAmount]

(* vatBreakdown after the forEach: the groups by key and the keys in the    *)
(* order they were created                                                  *)
(* variant: a group keeps the amounts of its last item only *)
RECURSIVE groupItems_lastItemOnly(_, _, _)
groupItems_lastItemOnly(vb, keys, items) ==
  IF items = <<>> THEN [groups |-> vb, keys |-> keys]
  ELSE LET item == Head(items)
           a == itemAmounts(item)
           k == rateKey(item.vatRate)
           new == [net |-> a.net, vat |-> a.vat, gross |-> a.gross]
       IN groupItems_lastItemOnly(
            [x \in DOMAIN vb \cup {k} |-> IF x = k THEN new ELSE vb[x]],
            IF k \in DOMAIN vb THEN keys ELSE Append(keys, k),
            Tail(items))

(* variant: a group's gross accumulates the net amounts only *)
RECURSIVE groupItems_grossWithoutVat(_, _, _)
groupItems_grossWithoutVat(vb, keys, items) ==
  IF items = <<>> THEN [groups |-> vb, keys |-> keys]
  ELSE LET item == Head(items)
           a == itemAmounts(item)
           k == rateKey(item.vatRate)
           old == IF k \in DOMAIN vb THEN vb[k] ELSE [net |-> 0, vat |-> 0, gross |-> 0]
           new == [net |-> old.net + a.net, vat |-> old.vat + a.vat,
                   gross |-> old.gross + a.net]
       IN groupItems_grossWithoutVat(
            [x \in DOMAIN vb \cup {k} |-> IF x = k THEN new ELSE vb[x]],
            IF k \in DOMAIN vb THEN keys ELSE Append(keys, k),
            Tail(items))

RECURSIVE groupItems(_, _, _)
groupItems(vb, keys, items) ==
  IF items = <<>> THEN [groups |-> vb, keys |-> keys]
  ELSE LET item == Head(items)
           a == itemAmounts(item)
           k == rateKey(item.vatRate)
           old == IF k \in DOMAIN vb THEN vb[k] ELSE [net |-> 0, vat |-> 0, gross |-> 0]
           new == [net |-> old.net + a.net, vat |-> old.vat + a.vat,
                   gross |-> old.gross + a.gross]
       IN groupItems([x \in DOMAIN vb \cup {k} |-> IF x = k THEN new ELSE vb[x]],
                     IF k \in DOMAIN vb THEN keys ELSE Append(keys, k),
                     Tail(items))

(* own keys of an object: integer keys ascending, then the others as created *)
RECURSIVE ascending(_)
ascending(S) ==
  IF S = {} THEN <<>>
  ELSE LET m == CHOOSE x \in S : \A y \in S : x <= y
       IN <<m>> \o ascending(S \ {m})

objectKeys(keys) ==
  LET index == {parseFloatKey(keys[i]) : i \in {j \in 1..Len(keys) :
                                                  parseFloatKey(keys[j]) >= 0}}
  IN MapSeq(ascending(index), rateKey)
     \o SelectSeq(keys, LAMBDA k : parseFloatKey(k) < 0)

RECURSIVE sumSeq(_, _, _)
sumSeq(seq, Op(_), sum) ==
  IF seq = <<>> THEN sum ELSE sumSeq(Tail(seq), Op, sum + Op(Head(seq)))

calculateInvoice(data) ==
  LET g == groupItems(<<>>, <<>>, data.items)
      entries == objectKeys(g.keys)
      values == MapSeq(entries, LAMBDA k : g.groups[k])
      netTotal == sumSeq(values, LAMBDA v : v.net, 0)
      vatTotal == sumSeq(values, LAMBDA v : v.vat, 0)
      grossTotal == netTotal + vatTotal
  IN [netTotal |-> netTotal,
      vatTotal |-> vatTotal,
      grossTotal |-> grossTotal,
      vatBreakdown |->
        MapSeq(entries,
               LAMBDA k : [rate |-> parseFloatKey(k), net |-> g.groups[k].net,
                           vat |-> g.groups[k].vat, gross |-> g.groups[k].gross])]

(* the placeholder shown for a date that is not there *)
Dash == Null

(* the caption of the converted table of the preview *)
rateCaption(data) ==
  LET exchangeRate == data.exchangeRate
      conversionRate == IF data.currency # "PLN" /\ exchangeRate.value # Null
                        THEN exchangeRate.value ELSE Null
      selectedRateDate == exchangeRate.targetDate
      effectiveRateDate == exchangeRate.effectiveDate
  IN [shown |-> data.currency # "PLN" /\ conversionRate # Null,
      asOf |-> IF effectiveRateDate # NoDate THEN effectiveRateDate
               ELSE IF selectedRateDate # NoDate THEN selectedRateDate ELSE Dash,
      rate |-> conversionRate,
      selectedNote |-> /\ selectedRateDate # NoDate
                       /\ effectiveRateDate # NoDate
                       /\ selectedRateDate # effectiveRateDate]

(* the rate status panel of the form *)
rateStatusPanel(S) ==
  LET exchangeRate == S.inv.exchangeRate
  IN [loadingText |-> S.st.loading,
      rateLine |-> /\ ~S.st.loading /\ exchangeRate.value # Null
                   /\ exchangeRate.effectiveDate # NoDate,
      asOf |-> exchangeRate.effectiveDate,
      rate |-> exchangeRate.value,
      hint |-> ~S.st.loading /\ exchangeRate.value = Null /\ S.st.error = NullError,
      error |-> S.st.error,
      effectiveNote |-> /\ ~S.st.loading
                        /\ exchangeRate.targetDate # NoDate
                        /\ exchangeRate.effectiveDate # NoDate
                        /\ exchangeRate.targetDate # exchangeRate.effectiveDate]

(* variant: the converted totals are recomputed without the VAT *)
InvoicePDFPreview_totalsWithoutVat(data) ==
  LET calculations == calculateInvoice(data)
      exchangeRate == data.exchangeRate
      conversionRate == IF data.currency # "PLN" /\ exchangeRate.value # Null
                        THEN exchangeRate.value ELSE Null
      shouldShowPlnBreakdown == data.currency # "PLN" /\ conversionRate # Null
      rateValue == IF conversionRate # Null THEN conversionRate ELSE 0
  IN [calculations |-> calculations,
      shouldShowPlnBreakdown |-> shouldShowPlnBreakdown,
      plnItems |->
        IF shouldShowPlnBreakdown
        THEN MapSeq(data.items,
               LAMBDA item :
                 [vatRate |-> item.vatRate,
                  netUnitPln |-> item.netPrice * rateValue,
                  netAmountPln |-> itemAmounts(item).net * rateValue,
                  vatAmountPln |-> itemAmounts(item).vat * rateValue,
                  grossAmountPln |-> itemAmounts(item).gross * rateValue])
        ELSE <<>>,
      plnTotals |->
        IF shouldShowPlnBreakdown
        THEN [net |-> calculations.netTotal * rateValue,
              vat |-> calculations.vatTotal * rateValue,
              gross |-> calculations.netTotal * rateValue]
        ELSE [net |-> Null, vat |-> Null, gross |-> Null]]

(* the figures the preview component derives from its invoiceData prop *)
InvoicePDFPreview(data) ==
  LET calculations == calculateInvoice(data)
      exchangeRate == data.exchangeRate
      conversionRate == IF data.currency # "PLN" /\ exchangeRate.value # Null
                        THEN exchangeRate.value ELSE Null
      shouldShowPlnBreakdown == data.currency # "PLN" /\ conversionRate # Null
      rateValue == IF conversionRate # Null THEN conversionRate ELSE 0
  IN [calculations |-> calculations,
      shouldShowPlnBreakdown |-> shouldShowPlnBreakdown,
      plnItems |->
        IF shouldShowPlnBreakdown
        THEN MapSeq(data.items,
               LAMBDA item :
                 [vatRate |-> item.vatRate,
                  netUnitPln |-> item.netPrice * rateValue,
                  netAmountPln |-> itemAmounts(item).net * rateValue,
                  vatAmountPln |-> itemAmounts(item).vat * rateValue,
                  grossAmountPln |-> itemAmounts(item).gross * rateValue])
        ELSE <<>>,
      plnTotals |->
        IF shouldShowPlnBreakdown
        THEN [net |-> calculations.netTotal * rateValue,
              vat |-> calculations.vatTotal * rateValue,
              gross |-> calculations.grossTotal * rateValue]
        ELSE [net |-> Null, vat |-> Null, gross |-> Null]]

---------------------------------------------------------------------------
(* Seller and buyer: the company forms, the address books, import *)

CompanyTypes == {"seller", "buyer"}

CompanyNames == {"", "Acme", "Beta"}

Addresses == {"", "Street 1"}

Companies == [name : CompanyNames, address : Addresses]

(* an object that is not a company record: none of its fields is there *)
NotACompany == [name |-> Undefined, address |-> Undefined]

(* the text of a chosen file: JSON of a value, or text that is not JSON *)
FileTexts ==
  {[syntax |-> "invalid", value |-> NotACompany]} \cup
  {[syntax |-> "json", value |-> v] : v \in Companies \cup {NotACompany}}

JSONparse(text) ==
  IF text.syntax = "json" THEN [thrown |-> FALSE, value |-> text.value]
  ELSE [thrown |-> TRUE, value |-> text.value]

MsgNoName == "Podaj nazwe firmy, aby zapisac dane"

MsgUpdated == "Dane zaktualizowane: "

MsgSaved == "Dane zapisane: "

MsgLoaded == "Wczytano: "

MsgImported == "Dane zaimportowane"

MsgImportError == "Blad podczas importu danych. Sprawdz format pliku JSON."

storageKeyOf(type) == IF type = "seller" THEN "savedSellers" ELSE "savedBuyers"

(* Array.prototype.findIndex: the first index from 0, or -1 *)
findIndex(seq, Test(_)) ==
  LET found == {i \in 1..Len(seq) : Test(seq[i])}
  IN IF found = {} THEN -1
     ELSE (CHOOSE i \in found : \A k \in found : i <= k) - 1

(* CompanyForm updateField through the onChange of the form *)
updateField(S, type, field, value) ==
  [S EXCEPT !.inv[type] = [@ EXCEPT ![field] = value]]

(* variant: a saved company is always appended *)
saveToCache_alwaysAppend(S, data, type) ==
  IF data.name = "" \/ data.name = Undefined
  THEN [S EXCEPT !.toast = Append(@, toastError(MsgNoName))]
  ELSE LET saved == [name |-> data.name, data |-> data]
           storageKey == storageKeyOf(type)
           updatedSaved == Append(S[storageKey], saved)
       IN [S EXCEPT !.toast = Append(@, toastSuccess(MsgSaved \o data.name)),
                    !.localStorage[storageKey] = updatedSaved,
                    ![storageKey] = updatedSaved]

saveToCache(S, data, type) ==
  IF data.name = "" \/ data.name = Undefined
  THEN [S EXCEPT !.toast = Append(@, toastError(MsgNoName))]
  ELSE LET saved == [name |-> data.name, data |-> data]
           storageKey == storageKeyOf(type)
           currentSaved == S[storageKey]
           existingIndex == findIndex(currentSaved, LAMBDA c : c.name = data.name)
           updatedSaved == IF existingIndex >= 0
                           THEN [currentSaved EXCEPT ![existingIndex + 1] = saved]
                           ELSE Append(currentSaved, saved)
           message == IF existingIndex >= 0 THEN MsgUpdated ELSE MsgSaved
       IN [S EXCEPT !.toast = Append(@, toastSuccess(message \o data.name)),
                    !.localStorage[storageKey] = updatedSaved,
                    ![storageKey] = updatedSaved]

loadFromCache(S, companyName, type) ==
  LET saved == S[storageKeyOf(type)]
      index == findIndex(saved, LAMBDA c : c.name = companyName)
  IN IF index >= 0
     THEN [S EXCEPT !.inv[type] = saved[index + 1].data,
                    !.toast = Append(@, toastSuccess(MsgLoaded \o companyName))]
     ELSE S

(* reader.onload of importCompanyData: the text of the chosen file is read *)
importCompanyData(S, type, text) ==
  LET parsed == JSONparse(text)
  IN IF parsed.thrown
     THEN [S EXCEPT !.toast = Append(@, toastError(MsgImportError))]
     ELSE [S EXCEPT !.inv[type] = parsed.value,
                    !.toast = Append(@, toastSuccess(MsgImported))]

InitBook ==
  /\ invoiceData = [currency |-> "PLN", issueDate |-> Today,
                    exchangeRate |-> initialExchangeRate,
                    items |-> <<NewItem(FirstItemId)>>,
                    seller |-> EmptyCompany, buyer |-> EmptyCompany,
                    notes |-> <<>>]
  /\ rateStatus = [loading |-> FALSE, error |-> NullError]
  /\ rateFetchTrigger = 0
  /\ cur = NoLookup
  /\ stale = {}
  /\ sent = {}
  /\ dropped = {}
  /\ override = NoDate
  /\ savedSellers = <<>>
  /\ savedBuyers = <<>>
  /\ localStorage = emptyStorage
  /\ toast = <<>>

(* the inputs of the company form show the fields of a company record *)
UpdateCompany ==
  \E type \in CompanyTypes :
    /\ invoiceData[type] \in Companies
    /\ \/ \E value \in CompanyNames :
            /\ value # invoiceData[type].name
            /\ Commit(event(State, updateField(State, type, "name", value)))
       \/ \E value \in Addresses :
            /\ value # invoiceData[type].address
            /\ Commit(event(State, updateField(State, type, "address", value)))
    /\ UNCHANGED override

SaveToCache ==
  \E type \in CompanyTypes :
    /\ Commit(event(State, saveToCache(State, invoiceData[type], type)))
    /\ UNCHANGED override

(* the select of saved companies lists the names of the address book *)
LoadFromCache ==
  \E type \in CompanyTypes :
    \E i \in 1..Len(State[storageKeyOf(type)]) :
      /\ Commit(event(State, loadFromCache(State, State[storageKeyOf(type)][i].name, type)))
      /\ UNCHANGED override

ImportCompanyData ==
  \E type \in CompanyTypes : \E text \in FileTexts :
    /\ Commit(event(State, importCompanyData(State, type, text)))
    /\ UNCHANGED override

NextBook ==
  \/ UpdateCompany
  \/ SaveToCache
  \/ LoadFromCache
  \/ ImportCompanyData

SpecBook == InitBook /\ [][NextBook]_vars

---------------------------------------------------------------------------
(* Specification of the item list and the preview: the item events of the  *)
(* form, from an invoice in PLN, one with a rate and one with a failed     *)
(* lookup                                                                  *)

ResolvedLookup(c, d) ==
  [phase |-> "done", outcome |-> "resolved",
   rate |-> [effectiveDate |-> d, mid |-> Mid(c, d)], requests |-> 1, last |-> "rate"]

FailedLookup ==
  [phase |-> "done", outcome |-> "failed", rate |-> NoRate, requests |-> 1,
   last |-> "error"]

InitItems ==
  /\ rateFetchTrigger = 0
  /\ stale = {}
  /\ sent = {}
  /\ savedSellers = <<>>
  /\ savedBuyers = <<>>
  /\ localStorage = emptyStorage
  /\ toast = <<>>
  /\ dropped = {}
  /\ override = NoDate
  /\ LET d == getPreviousBusinessDay(Today)
         invoice(c, r) == [currency |-> c, issueDate |-> Today, exchangeRate |-> r,
                           items |-> <<NewItem(FirstItemId)>>,
                    seller |-> EmptyCompany, buyer |-> EmptyCompany,
                    notes |-> <<>>]
     IN \/ /\ invoiceData = invoice("PLN", initialExchangeRate)
           /\ rateStatus = [loading |-> FALSE, error |-> NullError]
           /\ cur = NoLookup
        \/ /\ invoiceData = invoice("EUR", [targetDate |-> d, effectiveDate |-> d,
                                            value |-> Mid("EUR", d)])
           /\ rateStatus = [loading |-> FALSE, error |-> NullError]
           /\ cur = ResolvedLookup("EUR", d)
        \/ /\ invoiceData = invoice("EUR", [targetDate |-> d, effectiveDate |-> NoDate,
                                            value |-> Null])
           /\ rateStatus = [loading |-> FALSE, error |-> MsgHttp]
           /\ cur = FailedLookup

AddItem ==
  /\ \A i \in 1..Len(invoiceData.items) : parseIntId(invoiceData.items[i].id) < MaxId
  /\ Commit(event(State, addItem(State)))
  /\ UNCHANGED override

(* the remove button of an item is rendered when there is another item *)
RemoveItem ==
  \E i \in 1..Len(invoiceData.items) :
    /\ Len(invoiceData.items) > 1
    /\ Commit(event(State, removeItem(State, invoiceData.items[i].id)))
    /\ UNCHANGED override

UpdateItemOf(id, field, value) ==
  /\ Commit(event(State, updateItem(State, id, field, value)))
  /\ UNCHANGED override

UpdateItem ==
  \E i \in 1..Len(invoiceData.items) :
    \/ \E v \in QuantityInputs : UpdateItemOf(invoiceData.items[i].id, "quantity", v)
    \/ \E v \in NetPriceInputs : UpdateItemOf(invoiceData.items[i].id, "netPrice", v)
    \/ \E v \in VatRateInputs : UpdateItemOf(invoiceData.items[i].id, "vatRate", v)

NextItems ==
  \/ AddItem
  \/ RemoveItem
  \/ UpdateItem

SpecItems == InitItems /\ [][NextItems]_vars

(* the item events of the invoice the form is first rendered with *)
SpecBreakdown == Init /\ [][NextItems]_vars

(* the form with a rate source that answers every request: the currency   *)
(* select, the rate-date input and the answers of the source              *)
NextAnswered ==
  \/ CurrencyChange
  \/ RateDateChange
  \/ FetchSettled
  \/ JsonSettled

SpecAnswered ==
  /\ Init
  /\ [][NextAnswered]_vars
  /\ WF_vars(FetchSettled)
  /\ WF_vars(JsonSettled)

---------------------------------------------------------------------------
(* Properties *)

CurPending == cur.phase \in {"fetch", "json"}

rate == invoiceData.exchangeRate

(* C1: when a lookup for date D1 is in flight and the target date becomes   *)
(* another date D2, the D1 lookup is rejected in that event without any     *)
(* update, the only lookup left pending is a fresh one for D2, and the rate *)
(* state carries no outcome (no rate, no error) until D2's lookup answers.  *)
C1_SupersededDateNeverApplied ==
  [][(/\ CurPending
      /\ invoiceData.currency # "PLN"
      /\ invoiceData'.currency = invoiceData.currency
      /\ rate'.targetDate # NoDate
      /\ rate'.targetDate # cur.targetDate)
     => (/\ cur'.phase = "fetch"
         /\ cur'.targetDate = rate'.targetDate
         /\ cur'.attempts = 0
         /\ ~cur'.isCancelled
         /\ \E l \in dropped' : l.targetDate = cur.targetDate /\ l.isCancelled
         /\ Pending' = {cur'}
         /\ rate' = [targetDate |-> cur'.targetDate, effectiveDate |-> NoDate,
                     value |-> Null]
         /\ rateStatus' = [loading |-> TRUE, error |-> NullError])]_vars

C1_Witness ==
  /\ CurPending
  /\ \E l \in dropped : l.currency = cur.currency /\ l.targetDate # cur.targetDate

(* C2: whenever value is non-null it is the rate the source publishes for   *)
(* the invoice's current currency, for a day in the walk-back window of the *)
(* current targetDate.                                                      *)
C2_RateIsForCurrentCurrency ==
  rate.value # Null =>
    /\ rate.value \div 100 = CurrencyCode(invoiceData.currency)
    /\ rate.value % 100 <= rate.targetDate
    /\ rate.value % 100 > rate.targetDate - 10

C4_ToPlnClearsEverything ==
  [][(invoiceData.currency # "PLN" /\ invoiceData'.currency = "PLN")
     => (/\ rate' = EmptyRate
         /\ rateStatus' = [loading |-> FALSE, error |-> NullError]
         /\ Pending' = {}
         /\ sent' = {}
         /\ (CurPending => dropped' # {}))]_vars

C4_Witness ==
  /\ invoiceData.currency = "PLN"
  /\ dropped # {}

(* C5: value is non-null exactly when effectiveDate is non-empty. *)
C5_ValueIffEffectiveDate ==
  (rate.value # Null) <=> (rate.effectiveDate # NoDate)

(* C6: a pending lookup has asked for targetDate, targetDate-1, ... one day *)
(* per "not found" answer; when the answer to request k+1 (k < 10) is a     *)
(* rate the lookup has issued exactly k+1 requests and the state becomes    *)
(* resolved with that answer's effectiveDate and value.                     *)
C6_WalkBackResolves ==
  [][/\ CurPending' =>
          /\ Len(cur'.reqs) = cur'.attempts + 1
          /\ \A i \in 1..Len(cur'.reqs) : cur'.reqs[i] = cur'.targetDate - (i - 1)
          /\ \A i \in 1..cur'.attempts : cur'.resps[i] = "404"
     /\ (cur.phase = "json" /\ cur'.phase = "done" /\ cur'.last = "rate") =>
          /\ cur'.outcome = "resolved"
          /\ cur.attempts < 10
          /\ cur'.requests = cur.attempts + 1
          /\ cur'.rate.mid # Null
          /\ rate' = [targetDate |-> cur.targetDate,
                      effectiveDate |-> cur'.rate.effectiveDate,
                      value |-> cur'.rate.mid]
          /\ rateStatus' = [loading |-> FALSE, error |-> NullError]
          /\ sent' = {}]_vars

C6_Witness ==
  /\ cur.phase = "done"
  /\ cur.outcome = "resolved"
  /\ cur.requests = 2
  /\ rate.targetDate = 27
  /\ rate.effectiveDate = 26
  /\ rate.value # Null

(* C7: a lookup never issues more than 10 requests; when the 10th is also   *)
(* answered "not found" it ends with the exhaustion message, which differs  *)
(* from every hard-failure message, with effectiveDate empty, value null    *)
(* and targetDate the date it was started for.                              *)
C7_ExhaustionAfterTen ==
  [][/\ CurPending' => Len(cur'.reqs) <= 10
     /\ (cur.phase = "fetch" /\ cur'.phase = "done" /\ cur'.last = "404") =>
          /\ cur'.outcome = "exhausted"
          /\ cur'.requests = 10
          /\ \A i \in 1..9 : cur.resps[i] = "404"
          /\ sent' = {}
          /\ rateStatus' = [loading |-> FALSE, error |-> MsgExhausted]
          /\ MsgExhausted \notin {MsgHttp, MsgNoData, MsgNetwork, MsgFallback, NullError}
          /\ rate' = [targetDate |-> cur.targetDate, effectiveDate |-> NoDate,
                      value |-> Null]]_vars

C7_Witness ==
  /\ cur.phase = "done"
  /\ cur.outcome = "exhausted"
  /\ rateStatus.error = MsgExhausted

(* C8: a lookup that is answered with an error status or a network error    *)
(* ends there: it never stays pending after such an answer, issues no       *)
(* further request, sets an error message and clears effectiveDate/value.   *)
C8_HardFailureStops ==
  [][/\ CurPending' =>
          \A i \in 1..Len(cur'.resps) : cur'.resps[i] \in {"404", "ok"}
     /\ (CurPending /\ cur'.phase = "done" /\ cur'.last \in {"error", "network"}) =>
          /\ cur'.outcome = "failed"
          /\ cur'.requests = Len(cur.reqs)
          /\ sent' = {}
          /\ rateStatus'.loading = FALSE
          /\ rateStatus'.error \notin {NullError, MsgExhausted}
          /\ rate' = [targetDate |-> cur.targetDate, effectiveDate |-> NoDate,
                      value |-> Null]]_vars

C8_Witness ==
  /\ cur.phase = "done"
  /\ cur.outcome = "failed"
  /\ cur.last \in {"error", "network"}
  /\ cur.requests > 1
  /\ cur.requests < 10
  /\ rateStatus.error # NullError

(* C9: every retry request comes from a lookup that has not been            *)
(* superseded: it is not cancelled and it was started for the currency and  *)
(* the target date the invoice had when the answer arrived.                 *)
C9_SupersededIssuesNoRequest ==
  [][\A r \in sent' :
        r.attempt > 0 =>
          /\ ~r.isCancelled
          /\ r.currency = invoiceData.currency
          /\ r.targetDate = rate.targetDate]_vars

(* C10: no request is issued by an event that leaves the currency at PLN. *)
C10_RequestsOnlyWhenForeign ==
  sent # {} => invoiceData.currency # "PLN"

C10_Witness ==
  /\ invoiceData.currency # "PLN"
  /\ \E r \in sent : r.attempt > 0

---------------------------------------------------------------------------
(* Lookups started by a step: a lookup's first request is in sent'; a       *)
(* lookup that was started and replaced within the step is in dropped'      *)
(* without having been pending before the step.                             *)

LookupsStarted == {r \in sent' : r.attempt = 0}

LookupsReplaced ==
  {l \in dropped' :
      [l EXCEPT !.isCancelled = FALSE, !.aborted = FALSE] \notin Pending}

OneLookupStarted ==
  /\ Cardinality(LookupsStarted) = 1
  /\ LookupsReplaced = {}
  /\ cur'.phase = "fetch"
  /\ cur'.attempts = 0
  /\ ~cur'.isCancelled
  /\ cur'.currency = invoiceData'.currency
  /\ cur'.targetDate = rate'.targetDate
  /\ LookupsStarted = {request(cur')}
  /\ Pending' = {cur'}

NoLookupStarted == LookupsStarted = {} /\ LookupsReplaced = {}

(* the issue-date change replaces a target date that was the default *)
IssueDateMovesDefault ==
  /\ invoiceData'.issueDate # invoiceData.issueDate
  /\ invoiceData'.currency = invoiceData.currency
  /\ invoiceData.currency # "PLN"
  /\ rate.targetDate \in {NoDate, getPreviousBusinessDay(invoiceData.issueDate)}
  /\ rate.targetDate # getPreviousBusinessDay(invoiceData'.issueDate)

(* Steps named by the event that takes them.  The first conjuncts follow   *)
(* from the action and only spare evaluating it on other steps.            *)
SameInvoice ==
  /\ invoiceData'.currency = invoiceData.currency
  /\ invoiceData'.issueDate = invoiceData.issueDate

ByUsePreviousBusinessDay ==
  rateFetchTrigger' = rateFetchTrigger + 1 /\ SameInvoice /\ UsePreviousBusinessDay

ByRefreshRate ==
  rateFetchTrigger' = rateFetchTrigger + 1 /\ SameInvoice /\ RefreshRate

ByRateDateChange(value) ==
  /\ rateFetchTrigger' = rateFetchTrigger
  /\ SameInvoice
  /\ rate'.value = Null
  /\ RateDateChangeOf(value)

ByContinuation ==
  /\ Pending # {}
  /\ rateFetchTrigger' = rateFetchTrigger
  /\ SameInvoice
  /\ (FetchSettled \/ JsonSettled)

(* C11: a step that changes the currency from PLN to a foreign code, "use   *)
(* previous business day", "refresh" and an issue-date change that moves    *)
(* the default target date each start exactly one lookup, for the currency  *)
(* and target date the step leaves; no step starts two lookups; the steps   *)
(* that apply a lookup's answer start none.                                 *)
C11_OneLookupPerAction ==
  [][/\ Cardinality(LookupsStarted) + Cardinality(LookupsReplaced) <= 1
     /\ ByContinuation => NoLookupStarted
     /\ (\/ invoiceData.currency = "PLN" /\ invoiceData'.currency # "PLN"
         \/ ByUsePreviousBusinessDay
         \/ ByRefreshRate
         \/ IssueDateMovesDefault) => OneLookupStarted]_vars

C11_Witness ==
  /\ rateFetchTrigger > 0
  /\ cur.phase = "fetch"
  /\ cur.attempts = 0
  /\ sent = {request(cur)}
  /\ invoiceData.issueDate # Today

(* C12: a step that changes the currency from one foreign code to another   *)
(* while a target date is set clears effectiveDate and value and starts     *)
(* exactly one lookup, for the new currency and the unchanged target date.  *)
C12_ForeignToForeignStartsLookup ==
  [][(/\ invoiceData.currency # "PLN"
      /\ invoiceData'.currency # "PLN"
      /\ invoiceData'.currency # invoiceData.currency
      /\ rate.targetDate # NoDate)
     => (/\ rate'.targetDate = rate.targetDate
         /\ rate'.effectiveDate = NoDate
         /\ rate'.value = Null
         /\ OneLookupStarted)]_vars

(* C13: a rate-date change to any non-empty date on a foreign-currency      *)
(* invoice clears effectiveDate and value and starts a lookup for the date  *)
(* the change leaves as targetDate.                                         *)
C13_RateDateChangeStartsLookup ==
  [][\A value \in RateDateInputs \ {NoDate} :
        ByRateDateChange(value)
        => (/\ rate'.effectiveDate = NoDate
            /\ rate'.value = Null
            /\ OneLookupStarted)]_vars

(* C14: after a rate-date change to a non-empty date v, targetDate is v     *)
(* when v is not later than previousBusinessDay(issueDate), and is          *)
(* previousBusinessDay(issueDate) otherwise.                                *)
C14_RateDateClamped ==
  [][\A value \in RateDateInputs \ {NoDate} :
        ByRateDateChange(value)
        => rate'.targetDate =
              IF value <= getPreviousBusinessDay(invoiceData.issueDate)
              THEN value
              ELSE getPreviousBusinessDay(invoiceData.issueDate)]_vars

C14_Witness ==
  /\ invoiceData.currency # "PLN"
  /\ rate.targetDate = 27
  /\ rate.targetDate < getPreviousBusinessDay(invoiceData.issueDate)
  /\ cur.phase = "fetch"
  /\ cur.targetDate = 27
  /\ \E l \in dropped : l.targetDate = getPreviousBusinessDay(invoiceData.issueDate)

(* C15: a target date the user picked, different from the default of that   *)
(* moment, stays the target date through every later issue-date change.     *)
C15_OverrideSurvivesIssueDate ==
  override # NoDate => rate.targetDate = override

(* C16: an issue-date change on a foreign-currency invoice whose target     *)
(* date is empty or the previous business day of the old issue date leaves  *)
(* the previous business day of the new issue date as target date; when     *)
(* that differs from the old target date, effectiveDate and value are       *)
(* cleared and one lookup is started, and when it does not, the triple is   *)
(* unchanged and no lookup is started.                                      *)
C16_IssueDateRecomputesDefault ==
  [][(/\ invoiceData'.issueDate # invoiceData.issueDate
      /\ invoiceData.currency # "PLN"
      /\ rate.targetDate \in {NoDate, getPreviousBusinessDay(invoiceData.issueDate)})
     => (/\ rate'.targetDate = getPreviousBusinessDay(invoiceData'.issueDate)
         /\ IF rate'.targetDate # rate.targetDate
            THEN /\ rate'.effectiveDate = NoDate
                 /\ rate'.value = Null
                 /\ OneLookupStarted
            ELSE /\ rate' = rate
                 /\ NoLookupStarted)]_vars

C16_Witness ==
  /\ invoiceData.currency # "PLN"
  /\ invoiceData.issueDate = 29
  /\ rate = [targetDate |-> 26, effectiveDate |-> NoDate, value |-> Null]
  /\ override = NoDate
  /\ cur.phase = "fetch"
  /\ cur.targetDate = 26
  /\ \E l \in dropped : l.targetDate > 26 /\ l.currency = cur.currency

(* C17: "use previous business day" leaves the previous business day of    *)
(* the issue date as target date with effectiveDate and value cleared and   *)
(* starts one lookup; "refresh" starts one lookup and leaves the target     *)
(* date as it was; handleRefreshRate called with an empty target date sets  *)
(* the previous business day of the issue date and bumps the trigger.       *)
C17_UsePreviousDayAndRefresh ==
  [][/\ ByUsePreviousBusinessDay =>
          /\ rate' = [targetDate |-> getPreviousBusinessDay(invoiceData.issueDate),
                      effectiveDate |-> NoDate, value |-> Null]
          /\ OneLookupStarted
     /\ ByRefreshRate =>
          /\ rate.targetDate # NoDate
          /\ rate'.targetDate = rate.targetDate
          /\ OneLookupStarted
     /\ LET S == handleRefreshRate(WithRate(State, EmptyRate))
        IN /\ S.inv.exchangeRate =
                 [targetDate |-> getPreviousBusinessDay(invoiceData.issueDate),
                  effectiveDate |-> NoDate, value |-> Null]
           /\ S.trig = rateFetchTrigger + 1]_vars

C17_Witness ==
  /\ cur.phase = "fetch"
  /\ cur.attempts = 0
  /\ sent = {request(cur)}
  /\ cur.targetDate = rate.targetDate
  /\ rate.value # Null
  /\ rateStatus.loading

C19_EffectiveDateFromResponse ==
  [][IF cur.phase = "json"
     THEN \A b \in JsonAnswers(cur) :
            (b.kind = "rate" /\ JsonSettledWith(cur, b))
            => (/\ rate'.effectiveDate = b.effectiveDate
                /\ rate'.value = b.mid
                /\ rate'.targetDate = cur.reqs[1]
                /\ rate'.targetDate = rate.targetDate
                /\ cur.attempts > 0 => rate'.targetDate # rate'.effectiveDate)
     ELSE TRUE]_vars

C19_Witness ==
  /\ cur.phase = "done"
  /\ cur.outcome = "resolved"
  /\ cur.requests >= 2
  /\ rate.effectiveDate # NoDate
  /\ rate.effectiveDate < rate.targetDate - (cur.requests - 1)

(* the state an event leaves, as the state the next event starts from *)
Rendered(S) == [S EXCEPT !.sent = {}, !.dropped = {}, !.toast = <<>>]

(* C20: in every state with an error (hard failure or exhaustion) the       *)
(* refresh button is there and enabled; pressing it clears the error and    *)
(* leaves one fresh lookup pending for the same currency and target date;   *)
(* when that lookup is answered with a rate, the rate is stored with        *)
(* loading false and error null.                                            *)
C20_RefreshRecovers ==
  rateStatus.error # NullError =>
    /\ isForeignCurrency(State)
    /\ ~rateStatus.loading
    /\ rateStatus.error \in {MsgHttp, MsgNoData, MsgNetwork, MsgExhausted}
    /\ LET S1 == Rendered(event(State, handleRefreshRate(State)))
           r1 == onFetchSettled(S1, S1.cur, "ok")
           S2 == Rendered(event(S1, storeLookup(r1[1], S1.cur, r1[2])))
       IN /\ S1.st = [loading |-> TRUE, error |-> NullError]
          /\ S1.cur.phase = "fetch"
          /\ S1.cur.attempts = 0
          /\ S1.cur.currency = invoiceData.currency
          /\ S1.cur.targetDate = rate.targetDate
          /\ S1.inv.exchangeRate.targetDate = rate.targetDate
          /\ S1.stale = {}
          /\ S2.cur.phase = "json"
          /\ \A b \in JsonAnswers(S2.cur) :
               b.kind = "rate" =>
                 LET r2 == onJsonSettled(S2, S2.cur, b)
                     S3 == event(S2, storeLookup(r2[1], S2.cur, r2[2]))
                 IN /\ S3.inv.exchangeRate =
                         [targetDate |-> rate.targetDate,
                          effectiveDate |-> b.effectiveDate, value |-> b.mid]
                    /\ S3.st = [loading |-> FALSE, error |-> NullError]
                    /\ S3.cur.phase = "done"

C20_Witness ==
  /\ rateStatus.error = MsgExhausted
  /\ rateFetchTrigger > 0
  /\ cur.phase = "done"
  /\ cur.outcome = "exhausted"
  /\ LET S1 == event(State, handleRefreshRate(State))
     IN /\ S1.trig = rateFetchTrigger + 1
        /\ S1.sent = {request(S1.cur)}
        /\ S1.st.error = NullError

RECURSIVE nthPreviousBusinessDay(_, _)
nthPreviousBusinessDay(date, n) ==
  IF n = 0 THEN date
  ELSE nthPreviousBusinessDay(getPreviousBusinessDay(date), n - 1)

(* C21: when the selected date has no published rate the lookup retries on  *)
(* previous business days, at most ten of them: its k-th retry asks for the *)
(* k-th previous business day of the selected date.                         *)
C21_RetriesOnBusinessDays ==
  [][\A r \in sent' :
        r.attempt > 0 =>
          /\ r.attempt <= 10
          /\ r.date = nthPreviousBusinessDay(r.targetDate, r.attempt)]_vars

---------------------------------------------------------------------------
(* Properties of the preview and the item list *)

preview == InvoicePDFPreview(invoiceData)

items == invoiceData.items

(* the amounts of an item, written out *)
NetOf(item) == item.quantity * item.netPrice

VatOf(item) == IF item.vatRate >= 0 THEN (NetOf(item) * item.vatRate) \div 100 ELSE 0

GrossOf(item) == NetOf(item) + VatOf(item)

(* C22: the PLN conversion is there exactly when the currency is not PLN    *)
(* and value is non-null; then every line's unit net, net, VAT and gross    *)
(* and the three totals are the native figures times value, and the         *)
(* converted line amounts add up to the converted totals.                   *)
C22_PlnConversion ==
  LET p == preview
      value == rate.value
  IN /\ p.shouldShowPlnBreakdown <=> (invoiceData.currency # "PLN" /\ value # Null)
     /\ ~p.shouldShowPlnBreakdown => p.plnItems = <<>>
     /\ p.shouldShowPlnBreakdown =>
          /\ Len(p.plnItems) = Len(items)
          /\ \A i \in 1..Len(items) :
               /\ p.plnItems[i].netUnitPln = items[i].netPrice * value
               /\ p.plnItems[i].netAmountPln = NetOf(items[i]) * value
               /\ p.plnItems[i].vatAmountPln = VatOf(items[i]) * value
               /\ p.plnItems[i].grossAmountPln = GrossOf(items[i]) * value
          /\ p.plnTotals.net = sumSeq(items, NetOf, 0) * value
          /\ p.plnTotals.vat = sumSeq(items, VatOf, 0) * value
          /\ p.plnTotals.gross = sumSeq(items, GrossOf, 0) * value
          /\ p.plnTotals.net = sumSeq(p.plnItems, LAMBDA x : x.netAmountPln, 0)
          /\ p.plnTotals.vat = sumSeq(p.plnItems, LAMBDA x : x.vatAmountPln, 0)
          /\ p.plnTotals.gross = sumSeq(p.plnItems, LAMBDA x : x.grossAmountPln, 0)

C22_Witness ==
  /\ preview.shouldShowPlnBreakdown
  /\ Len(items) = 3
  /\ \E i, j \in 1..Len(items) :
       /\ items[i].vatRate = 23 /\ items[j].vatRate = -1
       /\ NetOf(items[i]) > 0 /\ NetOf(items[j]) > 0
  /\ preview.plnTotals.vat > 0

(* C23: for every item, net = quantity * unit price; for a rate code r >= 0 *)
(* vat = net * r / 100 and gross = net + vat; for every negative code       *)
(* vat = 0 and gross = net.  Also for every code of the rate select, and    *)
(* for 2 x 100.00 at 23%: net 200.00, vat 46.00, gross 246.00.              *)
C23_ItemAmounts ==
  /\ \A i \in 1..Len(items) : \A r \in VatRates \cup {-7, items[i].vatRate} :
       LET item == [items[i] EXCEPT !.vatRate = r]
           a == itemAmounts(item)
       IN /\ a.net = item.quantity * item.netPrice
          /\ r >= 0 => (a.vat * 100 = a.net * r /\ a.gross = a.net + a.vat)
          /\ r < 0 => (a.vat = 0 /\ a.gross = a.net)
  /\ itemAmounts([id |-> "1", quantity |-> 2, netPrice |-> 1000000, vatRate |-> 23])
       = [net |-> 2000000, vat |-> 460000, gross |-> 2460000]

C23_Witness ==
  /\ invoiceData.currency = "PLN"
  /\ Len(items) = 2
  /\ items[1].vatRate = -1 /\ itemAmounts(items[1]).gross = 30000
  /\ items[2].vatRate = 8 /\ itemAmounts(items[2]).vat = 1200

calculations == calculateInvoice(invoiceData)

(* C24: for the item list of the invoice (never empty), the net values of the
   breakdown groups add up to netTotal, their vat values to vatTotal and
   their gross values to grossTotal. *)
C24_BreakdownSums ==
  LET vb == calculations.vatBreakdown
  IN Len(items) >= 1 =>
       /\ sumSeq(vb, LAMBDA g : g.net, 0) = calculations.netTotal
       /\ sumSeq(vb, LAMBDA g : g.vat, 0) = calculations.vatTotal
       /\ sumSeq(vb, LAMBDA g : g.gross, 0) = calculations.grossTotal

C24_Witness ==
  /\ Len(items) = 3
  /\ Len(calculations.vatBreakdown) = 2
  /\ items[1].vatRate = 23 /\ items[2].vatRate = -1 /\ items[3].vatRate = 23
  /\ \A i \in 1..3 : NetOf(items[i]) > 0
  /\ calculations.vatTotal > 0

Range(seq) == {seq[i] : i \in 1..Len(seq)}

Reordered(p) == [invoiceData EXCEPT !.items = [i \in 1..Len(items) |-> items[p[i]]]]

WithCode(r) == SelectSeq(items, LAMBDA item : item.vatRate = r)

(* C25: the breakdown has exactly one group for each distinct VAT-rate code
   of the items, the net, vat and gross of a group are the sums over the
   items with its code, and every ordering of the same items gives the same
   set of groups and the same totals. *)
C25_GroupsPerCode ==
  LET calc == calculateInvoice(invoiceData)
      vb == calc.vatBreakdown
      groups == Range(vb)
      codes == {item.vatRate : item \in Range(items)}
  IN /\ {g.rate : g \in groups} = codes
     /\ Len(vb) = Cardinality(codes)
     /\ \A g \in groups :
          /\ g.net = sumSeq(WithCode(g.rate), NetOf, 0)
          /\ g.vat = sumSeq(WithCode(g.rate), VatOf, 0)
          /\ g.gross = sumSeq(WithCode(g.rate), GrossOf, 0)
     /\ \A p \in Permutations(1..Len(items)) :
          LET c == calculateInvoice(Reordered(p))
          IN /\ Range(c.vatBreakdown) = groups
             /\ c.netTotal = calc.netTotal
             /\ c.vatTotal = calc.vatTotal
             /\ c.grossTotal = calc.grossTotal

C25_Witness ==
  /\ Len(items) = 3
  /\ items[1].vatRate = -1 /\ items[2].vatRate = 8 /\ items[3].vatRate = -1
  /\ NetOf(items[1]) = 15000 /\ NetOf(items[2]) = 15000 /\ NetOf(items[3]) = 30000
  /\ \E g \in Range(calculations.vatBreakdown) : g.rate = -1 /\ g.net = 45000
  /\ calculations.vatBreakdown[1].rate = 8

---------------------------------------------------------------------------
(* Specification of the issue date: a foreign-currency invoice with the    *)
(* default rate date of its issue date, the issue date input and the       *)
(* previous-business-day button                                            *)

InitDates ==
  /\ rateFetchTrigger = 0
  /\ stale = {}
  /\ sent = {}
  /\ savedSellers = <<>>
  /\ savedBuyers = <<>>
  /\ localStorage = emptyStorage
  /\ toast = <<>>
  /\ dropped = {}
  /\ override = NoDate
  /\ \E issueDate \in DateInputs :
       LET d == getPreviousBusinessDay(issueDate)
       IN /\ invoiceData = [currency |-> "EUR", issueDate |-> issueDate,
                            exchangeRate |-> [targetDate |-> d, effectiveDate |-> d,
                                              value |-> Mid("EUR", d)],
                            items |-> <<NewItem(FirstItemId)>>,
                    seller |-> EmptyCompany, buyer |-> EmptyCompany,
                    notes |-> <<>>]
          /\ rateStatus = [loading |-> FALSE, error |-> NullError]
          /\ cur = ResolvedLookup("EUR", d)

IssueDateChangeTo(value) ==
  \E eager \in BOOLEAN :
    /\ value # invoiceData.issueDate
    /\ Commit(event(State, handleIssueDateChange(State, value, eager)))
    /\ UNCHANGED override

IssueDateChangeAny == \E value \in DateInputs : IssueDateChangeTo(value)

NextDates ==
  \/ IssueDateChangeAny
  \/ UsePreviousBusinessDay

SpecDates == InitDates /\ [][NextDates]_vars

---------------------------------------------------------------------------
(* Properties of the date helpers *)

Weekday(date) == date % 7

(* C26: getPreviousBusinessDay of a Saturday, a Sunday or a Monday is the
   Friday before it, of a Tuesday to Friday the day before it; the result is
   always a weekday, earlier than the argument by 1 to 3 days. The default
   rate date of the invoice is this day of the issue date. *)
C26_PreviousBusinessDay ==
  LET d == invoiceData.issueDate
      p == getPreviousBusinessDay(d)
  IN /\ Weekday(d) = 6 => p = d - 1
     /\ Weekday(d) = 0 => p = d - 2
     /\ Weekday(d) = 1 => p = d - 3
     /\ Weekday(d) \in {6, 0, 1} => Weekday(p) = 5
     /\ Weekday(d) \in 2..5 => p = d - 1
     /\ Weekday(p) \in 1..5
     /\ p < d
     /\ d - p <= 3
     /\ invoiceData.exchangeRate.targetDate = p

C26_Witness ==
  /\ Weekday(invoiceData.issueDate) = 1
  /\ invoiceData.exchangeRate.targetDate = invoiceData.issueDate - 3
  /\ rateStatus.loading
  /\ cur.phase = "fetch"

---------------------------------------------------------------------------
(* Properties of the item list *)

ItemIds == {ToString(n) : n \in 1..(MaxId + 1)}

(* C27: the invoice always holds at least one item, whatever items were added
   and removed; removeItem on a list of exactly one item leaves the list as
   it is, and on any list leaves at least one item. *)
C27_AtLeastOneItem ==
  /\ Len(items) >= 1
  /\ \A id \in ItemIds :
       /\ Len(removeItem(State, id).inv.items) >= 1
       /\ Len(items) = 1 => removeItem(State, id).inv.items = items

C27_Witness ==
  /\ Len(items) = 1
  /\ items[1].id = "3"
  /\ removeItem(State, "3").inv.items = items

---------------------------------------------------------------------------
(* Properties of the address books and of the import *)

book(S, type) == S[storageKeyOf(type)]

NamesOf(saved) == {saved[i].name : i \in 1..Len(saved)}

NoDuplicateNames(saved) ==
  \A i, j \in 1..Len(saved) : saved[i].name = saved[j].name => i = j

(* C28: saving a company whose name is in the address book of its party
   replaces that record and keeps the number of records, saving a new name
   adds exactly one record, so no two records of an address book share a
   name; saving a company with an empty name shows an error and changes
   nothing. *)
C28_SaveReplacesOrAdds ==
  /\ NoDuplicateNames(savedSellers)
  /\ NoDuplicateNames(savedBuyers)
  /\ \A type \in CompanyTypes : \A data \in Companies \cup {invoiceData[type]} :
       LET before == book(State, type)
           S1 == saveToCache(State, data, type)
           after == book(S1, type)
           record == [name |-> data.name, data |-> data]
       IN /\ data.name \in NamesOf(before) =>
               /\ Len(after) = Len(before)
               /\ \A i \in 1..Len(before) :
                    after[i] = IF before[i].name = data.name THEN record ELSE before[i]
          /\ (data.name \notin NamesOf(before) /\ data.name \in CompanyNames \ {""}) =>
               after = Append(before, record)
          /\ data.name = "" =>
               /\ S1.toast = <<toastError(MsgNoName)>>
               /\ [S1 EXCEPT !.toast = <<>>] = State

C28_Witness ==
  /\ Len(savedSellers) = 2
  /\ savedSellers[1].name = "Acme" /\ savedSellers[1].data.address = "Street 1"
  /\ invoiceData.seller = [name |-> "Acme", address |-> "Street 1"]
  /\ toast = <<toastSuccess(MsgUpdated \o "Acme")>>

Malformed(text) == text.syntax = "invalid" \/ text.value \notin Companies

(* C29: when the imported data is malformed, an error is shown and the seller
   and the buyer of the invoice and both address books stay as they were. *)
C29_MalformedImportRejected ==
  \A type \in CompanyTypes : \A text \in FileTexts :
    Malformed(text) =>
      LET S1 == importCompanyData(State, type, text)
      IN /\ \E i \in 1..Len(S1.toast) : S1.toast[i].kind = "error"
         /\ S1.inv.seller = invoiceData.seller
         /\ S1.inv.buyer = invoiceData.buyer
         /\ S1.savedSellers = savedSellers
         /\ S1.savedBuyers = savedBuyers

---------------------------------------------------------------------------
(* Properties of the VAT labels *)

NegativeCodes == {-1, -2, -3, -4, -7}

WithVatRate(item, r) == [item EXCEPT !.vatRate = r]

(* C30: the label of a VAT-rate code is ZW for -1, NP for -2, OO for -3, ZW
   for any other negative code and the percentage for a code >= 0; whatever
   its label, a negative code gives an item no VAT: the amounts of an item
   are the same for every negative code and the VAT of the invoice is that
   of its items with a code >= 0. *)
C30_VatLabels ==
  /\ getVatLabel(-1) = "ZW"
  /\ getVatLabel(-2) = "NP"
  /\ getVatLabel(-3) = "OO"
  /\ \A r \in NegativeCodes \ {-1, -2, -3} : getVatLabel(r) = "ZW"
  /\ \A r \in VatRates \cup {items[i].vatRate : i \in 1..Len(items)} :
       r >= 0 => getVatLabel(r) = ToString(r) \o "%"
  /\ \A g \in Range(calculations.vatBreakdown) :
       getVatLabel(g.rate) = IF g.rate = -1 THEN "ZW" ELSE ToString(g.rate) \o "%"
  /\ \A i \in 1..Len(items) : \A r \in NegativeCodes :
       LET a == itemAmounts(WithVatRate(items[i], r))
       IN /\ a.vat = 0
          /\ a.gross = a.net
          /\ a.net = NetOf(items[i])
  /\ LET calc == calculateInvoice(invoiceData)
         percentage == SelectSeq(items, LAMBDA item : item.vatRate >= 0)
     IN /\ calc.vatTotal = sumSeq(percentage, VatOf, 0)
        /\ calc.grossTotal = sumSeq(items, NetOf, 0) + sumSeq(percentage, VatOf, 0)

C30_Witness ==
  /\ Len(items) = 2
  /\ items[1].vatRate = -1 /\ NetOf(items[1]) = 15000
  /\ items[2].vatRate = 8 /\ NetOf(items[2]) = 30000
  /\ getVatLabel(calculations.vatBreakdown[1].rate) = "8%"
  /\ getVatLabel(calculations.vatBreakdown[2].rate) = "ZW"
  /\ calculations.vatTotal = 2400

---------------------------------------------------------------------------
(* Properties of the rate shown *)

caption == rateCaption(invoiceData)

panel == rateStatusPanel(State)

DatesDiffer ==
  /\ invoiceData.exchangeRate.targetDate # NoDate
  /\ invoiceData.exchangeRate.effectiveDate # NoDate
  /\ invoiceData.exchangeRate.targetDate # invoiceData.exchangeRate.effectiveDate

(* C31: when the converted table is shown, its caption is dated with
   effectiveDate (which is then not empty), never with targetDate in its
   place, and the note naming the selected date is shown exactly when
   targetDate and effectiveDate are both non-empty and differ; the same
   holds for the rate line of the form. *)
C31_AsOfEffectiveDate ==
  /\ caption.shown =>
       /\ invoiceData.exchangeRate.effectiveDate # NoDate
       /\ caption.asOf = invoiceData.exchangeRate.effectiveDate
       /\ caption.selectedNote <=> DatesDiffer
  /\ panel.rateLine =>
       /\ panel.asOf = invoiceData.exchangeRate.effectiveDate
       /\ panel.effectiveNote <=> DatesDiffer

(* C32: while the currency is foreign, targetDate is never later than the
   previous business day of the issue date, also once the issue date has
   been moved to an earlier day. *)
C32_TargetDateWithinDefault ==
  isForeignCurrency(State) =>
    invoiceData.exchangeRate.targetDate <= getPreviousBusinessDay(invoiceData.issueDate)

---------------------------------------------------------------------------
(* Properties of the lookup as a whole *)

Outcomes == {"resolved", "failed", "exhausted"}

(* the step supersedes the lookup in flight: its cleanup cancels it *)
Superseded ==
  /\ CurPending
  /\ [cur EXCEPT !.isCancelled = TRUE, !.aborted = TRUE] \in dropped' \cup stale'

(* C33: when the source answers every request, a lookup that is not
   superseded ends: it has issued at most 10 requests, its outcome is one of
   resolved, failed and exhausted, and loading is false once it has ended. *)
C33_LookupTerminates ==
  /\ [](\A l \in Pending : Len(l.reqs) <= MAX_RATE_LOOKBACK_DAYS)
  /\ [](cur.phase = "done" =>
          /\ cur.outcome \in Outcomes
          /\ cur.requests \in 1..MAX_RATE_LOOKBACK_DAYS
          /\ ~rateStatus.loading)
  /\ ([]<>(~CurPending) \/ []<><<Superseded>>_vars)

C33_Witness ==
  /\ cur.phase = "done"
  /\ cur.outcome = "resolved"
  /\ cur.requests = MAX_RATE_LOOKBACK_DAYS
  /\ ~rateStatus.loading

(* C34: whenever loading is true the lookup of the last effect run is in
   flight and not cancelled, so its outcome will be applied; whatever the
   user does (clearing the rate date, changing between foreign currencies,
   changing to PLN with a lookup in flight), loading is false when no lookup
   is in flight, and when the source answers every request loading is false
   again and again unless the user supersedes the lookup again and again:
   the buttons disabled by loading are never disabled forever. *)
C34_LoadingHasLookup ==
  /\ [](rateStatus.loading => (CurPending /\ ~cur.isCancelled /\ ~cur.aborted))
  /\ [](~CurPending => ~rateStatus.loading)
  /\ ([]<>(~rateStatus.loading) \/ []<><<Superseded>>_vars)

C34_Witness ==
  /\ invoiceData.currency = "PLN"
  /\ dropped # {}
  /\ ~rateStatus.loading
  /\ ~CurPending

(* C35: a rate error is shown only with value null and effectiveDate empty,
   and never while loading: no error message next to a resolved rate. *)
C35_ErrorExcludesRate ==
  /\ rateStatus.error # NullError =>
       /\ invoiceData.exchangeRate.value = Null
       /\ invoiceData.exchangeRate.effectiveDate = NoDate
  /\ ~(rateStatus.loading /\ rateStatus.error # NullError)

C35_Witness ==
  /\ rateStatus.error = MsgNoData
  /\ ~rateStatus.loading
  /\ invoiceData.currency = "USD"
  /\ invoiceData.exchangeRate = [targetDate |-> 27, effectiveDate |-> NoDate,
                                 value |-> Null]

(* C36: a foreign-currency invoice never rests with an empty targetDate; when
   the user clears the rate-date field, targetDate becomes the previous
   business day of the issue date and one lookup for that date is started. *)
C36_EmptyDateDefaults ==
  /\ [](isForeignCurrency(State) => rate.targetDate # NoDate)
  /\ [][ByRateDateChange(NoDate)
        => (/\ rate'.targetDate = getPreviousBusinessDay(invoiceData.issueDate)
            /\ rate'.effectiveDate = NoDate
            /\ OneLookupStarted
            /\ cur'.targetDate = getPreviousBusinessDay(invoiceData.issueDate)
            /\ rateStatus'.loading)]_vars

C36_Witness ==
  LET S1 == event(State, handleRateDateChange(State, NoDate))
  IN /\ isForeignCurrency(State)
     /\ rate.targetDate = 27
     /\ rate.value # Null
     /\ S1.inv.exchangeRate.targetDate = getPreviousBusinessDay(invoiceData.issueDate)
     /\ S1.cur.phase = "fetch"
     /\ S1.cur.targetDate = getPreviousBusinessDay(invoiceData.issueDate)

(* C37: an explicit refresh on a resolved invoice leaves targetDate,
   effectiveDate and value as they are while the new lookup is in flight;
   they change only in the step in which that lookup completes: replaced on
   success, effectiveDate and value cleared on a hard failure or on
   exhaustion, targetDate kept in every case. *)
RefreshInFlight == CurPending /\ rateStatus.loading /\ rate.value # Null

C37_RefreshKeepsRate ==
  [][/\ (ByRefreshRate /\ rate.value # Null) =>
          /\ rate' = rate
          /\ rateStatus'.loading
          /\ OneLookupStarted
          /\ RefreshInFlight'
     /\ (ByContinuation /\ RefreshInFlight) =>
          /\ CurPending' => rate' = rate
          /\ (cur'.phase = "done" /\ cur'.outcome = "resolved") =>
               /\ rate'.targetDate = rate.targetDate
               /\ rate'.value # Null
               /\ rate'.value = cur'.rate.mid
               /\ rate'.effectiveDate = cur'.rate.effectiveDate
          /\ (cur'.phase = "done" /\ cur'.outcome \in {"failed", "exhausted"}) =>
               rate' = [targetDate |-> rate.targetDate, effectiveDate |-> NoDate,
                        value |-> Null]]_vars

C37_Witness ==
  /\ RefreshInFlight
  /\ rate.effectiveDate # NoDate
  /\ cur.attempts > 0

---------------------------------------------------------------------------
(* Editing the invoice body: items, notes, seller, buyer and the issue     *)
(* date, on a PLN invoice and on a foreign one whose lookup is in flight,  *)
(* has resolved or has failed                                              *)

NotesInputs == {<<>>, <<"Termin 14 dni">>}

EditedNames == {"", "Acme"}

initialState ==
  [inv |-> [currency |-> "PLN", issueDate |-> Today,
            exchangeRate |-> initialExchangeRate,
            items |-> <<NewItem(FirstItemId)>>,
            seller |-> EmptyCompany, buyer |-> EmptyCompany, notes |-> <<>>],
   st |-> [loading |-> FALSE, error |-> NullError], trig |-> 0,
   cur |-> NoLookup, stale |-> {}, sent |-> {}, dropped |-> {},
   savedSellers |-> <<>>, savedBuyers |-> <<>>, localStorage |-> emptyStorage,
   toast |-> <<>>]

(* the answer r to the request of the lookup in flight, as in FetchSettled *)
afterFetch(S, r) ==
  LET res == onFetchSettled(S, S.cur, r)
  IN event(S, storeLookup(res[1], S.cur, res[2]))

(* the body b of its 200 response, as in JsonSettled *)
afterJson(S, b) ==
  LET res == onJsonSettled(S, S.cur, b)
  IN event(S, storeLookup(res[1], S.cur, res[2]))

(* the initial state and the states after the currency was set to EUR:    *)
(* lookup in flight, answered with an HTTP error, answered with a body     *)
EditStarts ==
  LET inFlight == {event(S, handleCurrencyChange(S, "EUR")) : S \in {initialState}}
      rendered == {Rendered(S) : S \in inFlight}
      failed == {afterFetch(S, "error") : S \in rendered}
      awaitingBody == {Rendered(afterFetch(S, "ok")) : S \in rendered}
      answered == UNION {{afterJson(S, b) : b \in JsonAnswers(S.cur)} :
                           S \in awaitingBody}
  IN {initialState} \cup inFlight \cup failed \cup answered

InitEdits ==
  \E S \in EditStarts :
    /\ invoiceData = S.inv
    /\ rateStatus = S.st
    /\ rateFetchTrigger = S.trig
    /\ cur = S.cur
    /\ stale = S.stale
    /\ sent = S.sent
    /\ dropped = S.dropped
    /\ savedSellers = S.savedSellers
    /\ savedBuyers = S.savedBuyers
    /\ localStorage = S.localStorage
    /\ toast = S.toast
    /\ override = NoDate

UpdateQuantity ==
  \E i \in 1..Len(invoiceData.items) : \E v \in QuantityInputs :
    UpdateItemOf(invoiceData.items[i].id, "quantity", v)

EditCompanyName ==
  \E type \in CompanyTypes : \E value \in EditedNames :
    /\ value # invoiceData[type].name
    /\ Commit(event(State, updateField(State, type, "name", value)))
    /\ UNCHANGED override

EditNotes ==
  \E value \in NotesInputs :
    /\ value # invoiceData.notes
    /\ Commit(event(State, setNotes(State, value)))
    /\ UNCHANGED override

AppendNote ==
  \E i \in 1..Len(NOTE_PRESETS) :
    /\ Commit(event(State, appendNote(State, NOTE_PRESETS[i])))
    /\ UNCHANGED override

NextEdits ==
  \/ AddItem
  \/ RemoveItem
  \/ UpdateQuantity
  \/ EditCompanyName
  \/ EditNotes
  \/ AppendNote
  \/ IssueDateChange

SpecEdits == InitEdits /\ [][NextEdits]_vars

(* C38: adding, removing or updating items, editing the notes, the seller
   or the buyer, and changing the issue date of a PLN invoice leave the
   currency and the exchange-rate triple as they are and start no lookup:
   no request is sent, the lookup in flight (if any) is neither replaced nor
   cancelled, and the loading flag and the error are unchanged. *)
BodyEdit ==
  \/ invoiceData'.items # invoiceData.items
  \/ invoiceData'.notes # invoiceData.notes
  \/ invoiceData'.seller # invoiceData.seller
  \/ invoiceData'.buyer # invoiceData.buyer
  \/ (invoiceData.currency = "PLN" /\ invoiceData'.issueDate # invoiceData.issueDate)

KeepsRate(S) ==
  /\ S.inv.currency = invoiceData.currency
  /\ S.inv.exchangeRate = rate
  /\ S.sent = {}
  /\ S.cur = cur
  /\ S.stale = stale
  /\ S.trig = rateFetchTrigger
  /\ S.st = rateStatus

C38_EditsKeepRate ==
  /\ [][BodyEdit =>
          /\ invoiceData'.currency = invoiceData.currency
          /\ rate' = rate
          /\ NoLookupStarted
          /\ sent' = {}
          /\ cur' = cur
          /\ stale' = stale
          /\ rateFetchTrigger' = rateFetchTrigger
          /\ rateStatus' = rateStatus]_vars
  /\ [](\A i \in 1..Len(invoiceData.items) :
          LET id == invoiceData.items[i].id
          IN /\ \A v \in NetPriceInputs :
                  KeepsRate(event(State, updateItem(State, id, "netPrice", v)))
             /\ \A v \in VatRateInputs :
                  KeepsRate(event(State, updateItem(State, id, "vatRate", v)))
             /\ \A v \in Addresses : \A type \in CompanyTypes :
                  KeepsRate(event(State, updateField(State, type, "address", v))))

C38_Witness ==
  /\ invoiceData.currency = "EUR"
  /\ rateStatus.loading
  /\ CurPending
  /\ rate = [targetDate |-> getPreviousBusinessDay(Today), effectiveDate |-> NoDate,
             value |-> Null]
  /\ Len(invoiceData.items) = 2
  /\ invoiceData.items[1].quantity = 2
  /\ invoiceData.seller.name = "Acme"
  /\ invoiceData.notes = <<"Termin 14 dni", LineBreak, NOTE_PRESETS[1]>>

(* C39: a 200 response whose body carries no numeric mid rate is a hard
   failure: the lookup ends as failed with that response as its last one, no
   request for an earlier date is sent, the error message "no rate data" is
   set and shown, loading is false, and effectiveDate and value are cleared
   while targetDate is kept. *)
NoMidAnswered ==
  /\ CurPending
  /\ cur.phase = "json"
  /\ cur'.phase = "done"
  /\ cur'.last = "nomid"

C39_NoMidIsHardFailure ==
  [][NoMidAnswered =>
       /\ cur'.outcome = "failed"
       /\ cur'.requests = Len(cur.reqs)
       /\ sent' = {}
       /\ rateStatus' = [loading |-> FALSE, error |-> MsgNoData]
       /\ toast' = <<toastError(MsgNoData)>>
       /\ rate' = [targetDate |-> cur.targetDate, effectiveDate |-> NoDate,
                   value |-> Null]
       /\ rate'.targetDate = rate.targetDate]_vars

C39_Witness ==
  /\ cur.phase = "done"
  /\ cur.last = "nomid"
  /\ cur.outcome = "failed"
  /\ cur.requests \in 2..(MAX_RATE_LOOKBACK_DAYS - 1)
  /\ rateStatus.error = MsgNoData
  /\ toast = <<toastError(MsgNoData)>>
  /\ rate.value = Null

(* C40: after any sequence of add-item and remove-item actions the ids of
   the items are pairwise distinct decimal numbers, and add-item appends to
   the unchanged list an item whose id is one greater than the largest id
   in the list, so greater than every id in it. *)
idOf(i) == parseIntId(invoiceData.items[i].id)

C40_DistinctIds ==
  LET n == Len(invoiceData.items)
      added == addItem(State).inv.items
  IN /\ \A i \in 1..n : ToString(idOf(i)) = invoiceData.items[i].id
     /\ \A i, j \in 1..n : i # j => invoiceData.items[i].id # invoiceData.items[j].id
     /\ Len(added) = n + 1
     /\ SubSeq(added, 1, n) = invoiceData.items
     /\ \A i \in 1..n : idOf(i) < parseIntId(added[n + 1].id)
     /\ \E i \in 1..n : idOf(i) + 1 = parseIntId(added[n + 1].id)
     /\ ToString(parseIntId(added[n + 1].id)) = added[n + 1].id

C40_Witness ==
  /\ Len(invoiceData.items) = 2
  /\ invoiceData.items[1].id = "2"
  /\ invoiceData.items[2].id = "3"

====
